---- MODULE Spec2Model ----
(***************************************************************************)
(* A model of the query orchestration and retrieval pipeline of            *)
(* Solar-multiagent: the FAISS vector store (backend/storage/              *)
(* vector_store.py), the chunker (backend/utils/pdf_processor.py), the     *)
(* router (backend/agents/controller.py), the orchestrator                 *)
(* (backend/main.py, backend/agents/base_agent.py) and the audit log       *)
(* (backend/utils/logger.py).                                              *)
(*                                                                         *)
(* Each component has its own variables and its own specification          *)
(* (SpecStore, SpecChunk, SpecRouter, SpecAsk, SpecLog); a specification   *)
(* leaves the variables of the other components at their idle values.      *)
(***************************************************************************)
EXTENDS Integers, Sequences, FiniteSets, TLC

VARIABLES
    \* FAISSVectorStore: the in-memory index and metadata, and the two files
    index, documents, index_file, metadata_file, store_error,
    \* PDFProcessor.chunk_text: the cleaned text, the configuration, the loop
    \* variables, and (history) the window starts already processed
    text, chunk_size, chunk_overlap, start, chunks, visited, chunk_pc,
    \* ControllerAgent: the query, whether the index holds documents, the
    \* strategy asked for, the reply of the LLM call, and the decision returned
    query, has_indexed_docs, use_llm, llm_reply, decision, router_pc,
    \* AgentLogger: the log file, the number of log_request calls ever made
    \* on it (history), the calls made in this run, and what the last call
    \* returned
    log_file, nlogged, log_calls, log_returned,
    \* ask_query: the query of the request, the position of the handler, and
    \* its locals: the controller's decision, the responses of the agents
    \* called so far, the synthesized answer, and the response returned
    request, ask_pc, decision_data, agent_responses, final_answer,
    query_response,
    \* The server: the requests being handled on the event loop (each with its
    \* position), the handler that is inside a synchronous section of the
    \* vector store, and what the last call on the store observed and
    \* returned if it was a search
    handlers, running, observed,
    \* WebSearchAgent.search_duckduckgo: the position of the call, its query
    \* and max_results, the loop variable, and (history) what each ddgs.text call
    \* did and each time.sleep; then what the call returned
    ddg,
    \* PDFRAGAgent: the set of indexed file names, the initialized flag, and
    \* (history) the last ingestion call: what it was, whether it raised, and
    \* the store and the set as they were when it was called
    indexed_files, initialized, ingest,
    \* The worker processes inside log_request on the shared log file: for
    \* each its position, its local list logs, and (history) how its read and
    \* its write went
    workers

storeVars == <<index, documents, index_file, metadata_file, store_error>>
chunkVars == <<text, chunk_size, chunk_overlap, start, chunks, visited, chunk_pc>>

routerVars == <<query, has_indexed_docs, use_llm, llm_reply, decision, router_pc>>

logVars == <<log_file, nlogged, log_calls, log_returned>>

askVars == <<request, ask_pc, decision_data, agent_responses, final_answer,
             query_response>>

serveVars == <<handlers, running, observed>>

ddgVars == <<ddg>>

ingestVars == <<indexed_files, initialized, ingest>>

workerVars == <<workers>>

vars == <<storeVars, chunkVars, routerVars, logVars, askVars, serveVars, ddgVars, ingestVars, workerVars>>

\* The idle values a specification gives the variables of the other components.
StoreIdle ==
    /\ index = <<>>
    /\ documents = <<>>
    /\ index_file = [kind |-> "missing", data |-> <<>>]
    /\ metadata_file = [kind |-> "missing", data |-> <<>>]
    /\ store_error = FALSE
ChunkIdle ==
    /\ text = <<>>
    /\ chunk_size = 0
    /\ chunk_overlap = 0
    /\ start = 0
    /\ chunks = <<>>
    /\ visited = <<>>
    /\ chunk_pc = "idle"

\* The reply of an LLM call that was never made, and the decision not yet taken.
NoReply == [raises |-> FALSE, agents_match |-> FALSE, names |-> <<>>,
            confidence |-> [kind |-> "absent", value |-> 0],
            rationale_match |-> FALSE]
NoDecision == [agents_to_call |-> <<>>,
               rationale |-> [prefix |-> "", parts |-> <<>>],
               confidence |-> 0, logged_as |-> "none"]
RouterIdle ==
    /\ query = <<>>
    /\ has_indexed_docs = FALSE
    /\ use_llm = FALSE
    /\ llm_reply = NoReply
    /\ decision = NoDecision
    /\ router_pc = "idle"

\* The log file as AgentLogger.__init__ creates it, and nothing returned yet.
NothingReturned == [op |-> "none", request_id |-> 0, limit |-> 0,
                    read |-> <<>>, logs |-> <<>>]
LogIdle ==
    /\ log_file = [kind |-> "json", data |-> <<>>]
    /\ nlogged = 0
    /\ log_calls = 0
    /\ log_returned = NothingReturned

\* No answer synthesized and no response returned yet; no request in progress.
NoAnswer == [kind |-> "none", context |-> <<>>, lines |-> <<>>]
NoResponse == [query |-> <<>>, answer |-> NoAnswer, agents_used |-> <<>>,
               decision_rationale |-> [prefix |-> "", parts |-> <<>>],
               sources |-> <<>>]
AskIdle ==
    /\ request = <<>>
    /\ ask_pc = "idle"
    /\ decision_data = NoDecision
    /\ agent_responses = <<>>
    /\ final_answer = NoAnswer
    /\ query_response = NoResponse

\* No request is being handled, and no search was made yet.
NoHandlers == <<>>
NoRequest == <<"none", 0>>
NoSearch == [called |-> FALSE, ntotal |-> 0, ndocuments |-> 0,
             raised |-> FALSE, results |-> <<>>]
ServeIdle ==
    /\ handlers = NoHandlers
    /\ running = NoRequest
    /\ observed = NoSearch

\* A call on the store other than search: what a search returned before it
\* is no longer the value returned by the last call.
\* No DuckDuckGo search is in progress.
NoDdg == [pc |-> "idle", query |-> <<>>, max_results |-> 0, attempt |-> 0,
          calls |-> <<>>, slept |-> <<>>, returned |-> <<>>]
DdgIdle == ddg = NoDdg

\* PDFRAGAgent not yet used: no file name recorded, not initialized, no call made
NoIngest == [op |-> "none", filename |-> "none", step |-> "none",
             raised |-> FALSE,
             before |-> [index |-> <<>>, documents |-> <<>>, indexed_files |-> {}]]
IngestIdle ==
    /\ indexed_files = {}
    /\ initialized = FALSE
    /\ ingest = NoIngest

\* No worker is inside log_request
IdleWorker == [pc |-> "idle", logs |-> <<>>, read_ok |-> TRUE, outcome |-> "none"]
WorkersIdle == workers = <<>>

StoreOnly ==
    /\ UNCHANGED ddgVars
    /\ UNCHANGED ingestVars
    /\ UNCHANGED workerVars
    /\ UNCHANGED <<chunkVars, routerVars, logVars, askVars, handlers, running>>
    /\ observed' = NoSearch
ChunkOnly == UNCHANGED <<storeVars, routerVars, logVars, askVars, serveVars, ddgVars, ingestVars, workerVars>>
RouterOnly == UNCHANGED <<storeVars, chunkVars, logVars, askVars, serveVars, ddgVars, ingestVars, workerVars>>
LogOnly == UNCHANGED <<storeVars, chunkVars, routerVars, askVars, serveVars, ddgVars, ingestVars, workerVars>>
AskOnly == UNCHANGED <<storeVars, chunkVars, routerVars, serveVars, ddgVars, ingestVars, workerVars>>
ServeOnly == UNCHANGED <<chunkVars, routerVars, logVars, askVars, ddgVars, ingestVars, workerVars>>

Min(a, b) == IF a < b THEN a ELSE b
Max(a, b) == IF a < b THEN b ELSE a

(***************************************************************************)
(* The vector store: backend/storage/vector_store.py                       *)
(***************************************************************************)

\* Bounds of the store model.
MaxDocs  == 2     \* the index holds at most this many vectors
MaxBatch == 2     \* texts / metadatas of one add_documents call

Texts == {"t1", "t2"}
Files == {"a.pdf"}

\* A metadata dict: only its "filename" key is read by the store
\* ("none": the dict has no filename, as the default {}).
Metadatas == [filename : Files \cup {"none"}]
EmptyMetadata == [filename |-> "none"]

\* The metadatas argument: None (given = FALSE) or a list of any length.
SeqUpTo(S, n) == UNION {[1..k -> S] : k \in 0..n}
MetadataArgs ==
    {[given |-> FALSE, list |-> <<>>]}
        \cup {[given |-> TRUE, list |-> l] : l \in SeqUpTo(Metadatas, MaxBatch)}

\* embedding_model.encode_documents: one vector per text, a function of the text.
Embed(t) == [vector_of |-> t]
encode_documents(texts) == [i \in 1..Len(texts) |-> Embed(texts[i])]

\* A file of the store: missing, corrupt (unreadable), or holding saved data.
MissingFile == [kind |-> "missing", data |-> <<>>]
CorruptFile == [kind |-> "corrupt", data |-> <<>>]
SavedFile(d) == [kind |-> "ok", data |-> d]

\* create_index: a new empty IndexFlatL2.
create_index == <<>>

\* zip(texts, metadatas): pairs up to the shorter of the two.
zip_len(texts, metas) == Min(Len(texts), Len(metas))

\* add_documents on the store (idx, docs), its encoding having succeeded:
\* every embedding is added to the index; one entry per zip(texts, metadatas)
\* pair is appended to the documents, doc_id = len(self.documents) at the append.
add_documents(idx, docs, texts, metadatas) ==
    IF texts = <<>> THEN [index |-> idx, documents |-> docs]
    ELSE LET metas == IF metadatas.given THEN metadatas.list
                      ELSE [i \in 1..Len(texts) |-> EmptyMetadata]
             n == zip_len(texts, metas)
         IN [index |-> idx \o encode_documents(texts),
             documents |-> docs \o [i \in 1..n |->
                               [content |-> texts[i],
                                metadata |-> metas[i],
                                doc_id |-> Len(docs) + i - 1]]]

\* settings.TOP_K_RETRIEVAL
TOP_K_RETRIEVAL == 5

\* "score = 1 / (1 + dist)", in hundredths.
similarity(dist) == 100 \div (1 + dist)

\* FAISSVectorStore.search, when nothing raises: the min(top_k, ntotal)
\* nearest vectors, nearest first, with "top_k or settings.TOP_K_RETRIEVAL"
\* for top_k (the j-th nearest is taken to be vector j, at distance j - 1);
\* a hit without a documents entry is skipped.
search(idx, docs, top_k) ==
    IF Len(idx) = 0 THEN <<>>
    ELSE LET k == Min(IF top_k = 0 THEN TOP_K_RETRIEVAL ELSE top_k, Len(idx))
             hits == [j \in 1..k |-> [idx |-> j, dist |-> j - 1]]
             found == SelectSeq(hits, LAMBDA h : h.idx <= Len(docs))
         IN [j \in 1..Len(found) |->
                [content |-> docs[found[j].idx].content,
                 metadata |-> docs[found[j].idx].metadata,
                 score |-> similarity(found[j].dist)]]

\* The top_k a search is called with: negative, None or 0, 1, the default.
TopKs == {-1, 0, 1, TOP_K_RETRIEVAL}

\* mutant of search_outcome: the "ntotal == 0" guard is missing, so the query
\* is encoded and the index searched whatever it holds.
search_outcome_unguarded(idx, docs, top_k, encode_ok) ==
    IF ~encode_ok THEN [raised |-> TRUE, results |-> <<>>]
    ELSE IF Min(IF top_k = 0 THEN TOP_K_RETRIEVAL ELSE top_k, Len(idx)) <= 0
    THEN [raised |-> TRUE, results |-> <<>>]
    ELSE [raised |-> FALSE, results |-> search(idx, docs, top_k)]

\* FAISSVectorStore.search as a call: an empty index returns [] before
\* anything else is done; else encode_query may raise, and index.search
\* raises for a k that is not positive.
search_outcome(idx, docs, top_k, encode_ok) ==
    IF Len(idx) = 0 THEN [raised |-> FALSE, results |-> <<>>]
    ELSE IF ~encode_ok THEN [raised |-> TRUE, results |-> <<>>]
    ELSE IF Min(IF top_k = 0 THEN TOP_K_RETRIEVAL ELSE top_k, Len(idx)) <= 0
    THEN [raised |-> TRUE, results |-> <<>>]
    ELSE [raised |-> FALSE, results |-> search(idx, docs, top_k)]

\* What a search call on the store observes and returns.
observe(idx, docs, top_k, encode_ok) ==
    LET r == search_outcome(idx, docs, top_k, encode_ok)
    IN [called |-> TRUE, ntotal |-> Len(idx), ndocuments |-> Len(docs),
        raised |-> r.raised, results |-> r.results]

Search ==
    /\ \E top_k \in TopKs, encode_ok \in BOOLEAN :
          observed' = observe(index, documents, top_k, encode_ok)
    /\ UNCHANGED <<storeVars, handlers, running>>
    /\ ServeOnly

\* AddDocuments: a call add_documents(texts, metadatas); the encoding raises
\* (encode_ok = FALSE) before anything is added.
AddDocumentsCall(texts, metadatas, encode_ok) ==
    /\ Len(index) + Len(texts) <= MaxDocs
    /\ Len(documents) + Len(texts) <= MaxDocs
    /\ IF encode_ok \/ texts = <<>>
       THEN LET r == add_documents(index, documents, texts, metadatas)
            IN /\ index' = r.index
               /\ documents' = r.documents
               /\ store_error' = FALSE
       ELSE /\ store_error' = TRUE
            /\ UNCHANGED <<index, documents>>
    /\ UNCHANGED <<index_file, metadata_file>>
    /\ StoreOnly

AddDocuments ==
    \E texts \in SeqUpTo(Texts, MaxBatch), metadatas \in MetadataArgs,
       encode_ok \in BOOLEAN :
        AddDocumentsCall(texts, metadatas, encode_ok)

\* clear: a new index and an empty documents list.
Clear ==
    /\ index' = create_index
    /\ documents' = <<>>
    /\ store_error' = FALSE
    /\ UNCHANGED <<index_file, metadata_file>>
    /\ StoreOnly

\* delete_by_source: rebuild without the documents of the source; the
\* re-encoding of add_documents may raise after clear() has run.
\* "filtered_docs = [doc for doc in self.documents if ...filename != source]"
filter_docs(docs, source) ==
    LET Keep(doc) == doc.metadata.filename # source
    IN SelectSeq(docs, Keep)

DeleteBySourceCall(source, encode_ok) ==
    LET filtered_docs == filter_docs(documents, source)
        texts == [i \in 1..Len(filtered_docs) |-> filtered_docs[i].content]
        metadatas == [given |-> TRUE,
                      list |-> [i \in 1..Len(filtered_docs) |->
                                    filtered_docs[i].metadata]]
    IN /\ UNCHANGED <<index_file, metadata_file>>
       /\ StoreOnly
       /\ IF Len(filtered_docs) < Len(documents)
          THEN IF texts = <<>>
               THEN /\ index' = create_index
                    /\ documents' = <<>>
                    /\ store_error' = FALSE
               ELSE IF encode_ok
               THEN LET r == add_documents(create_index, <<>>, texts, metadatas)
                    IN /\ index' = r.index
                       /\ documents' = r.documents
                       /\ store_error' = FALSE
               ELSE /\ index' = create_index
                    /\ documents' = <<>>
                    /\ store_error' = TRUE
          ELSE /\ encode_ok
               /\ store_error' = FALSE
               /\ UNCHANGED <<index, documents>>

DeleteBySource ==
    \E source \in Files, encode_ok \in BOOLEAN :
        DeleteBySourceCall(source, encode_ok)

\* save: write_index, then pickle.dump of the documents. A write can fail:
\* faiss.write_index raising leaves the index file as it was or partly written;
\* open(..., 'wb') raising leaves the metadata file as it was; pickle.dump
\* raising leaves it truncated.
SaveOutcomes == {"ok", "index_write_failed_unchanged", "index_write_failed_partial",
                 "metadata_open_failed", "metadata_dump_failed"}

Save ==
    \E outcome \in SaveOutcomes :
        /\ UNCHANGED <<index, documents>>
        /\ index_file' =
              CASE outcome = "index_write_failed_unchanged" -> index_file
                [] outcome = "index_write_failed_partial" -> CorruptFile
                [] OTHER -> SavedFile(index)
        /\ metadata_file' =
              CASE outcome = "ok" -> SavedFile(documents)
                [] outcome = "metadata_dump_failed" -> CorruptFile
                [] OTHER -> metadata_file
        /\ store_error' = (outcome # "ok")
        /\ StoreOnly

\* load: both files must exist; a read that raises ends in create_index(),
\* and self.documents keeps whatever it held.
load(idx, docs, ifile, mfile) ==
    IF ifile.kind # "missing" /\ mfile.kind # "missing"
    THEN IF ifile.kind = "corrupt"
         THEN [index |-> create_index, documents |-> docs, loaded |-> FALSE]
         ELSE IF mfile.kind = "corrupt"
         THEN [index |-> create_index, documents |-> docs, loaded |-> FALSE]
         ELSE [index |-> ifile.data, documents |-> mfile.data, loaded |-> TRUE]
    ELSE [index |-> create_index, documents |-> docs, loaded |-> FALSE]

Load ==
    LET r == load(index, documents, index_file, metadata_file)
    IN /\ index' = r.index
       /\ documents' = r.documents
       /\ store_error' = FALSE
       /\ UNCHANGED <<index_file, metadata_file>>
       /\ StoreOnly

\* The process dies inside save() and is started again: the files are as the
\* crash left them (write_index was cut short; write_index completed and the
\* metadata file was not yet opened; pickle.dump was cut short), and
\* FAISSVectorStore.__init__ of the new process runs load() on them.
CrashPoints == {"in_write_index", "between_the_writes", "in_pickle_dump"}
crashed_index_file(idx, ifile, point) ==
    IF point = "in_write_index" THEN CorruptFile ELSE SavedFile(idx)
crashed_metadata_file(docs, mfile, point) ==
    IF point = "in_pickle_dump" THEN CorruptFile ELSE mfile
SaveCrashRestart ==
    \E point \in CrashPoints :
        /\ index_file' = crashed_index_file(index, index_file, point)
        /\ metadata_file' = crashed_metadata_file(documents, metadata_file, point)
        /\ LET r == load(create_index, <<>>, index_file', metadata_file')
           IN /\ index' = r.index
              /\ documents' = r.documents
        /\ store_error' = FALSE
        /\ StoreOnly

\* The environment removes or damages a file of the store.
DamageFile ==
    \E f \in {"index", "metadata"}, d \in {MissingFile, CorruptFile} :
        /\ IF f = "index"
           THEN index_file' = d /\ UNCHANGED metadata_file
           ELSE metadata_file' = d /\ UNCHANGED index_file
        /\ UNCHANGED <<index, documents, store_error>>
        /\ StoreOnly

\* FAISSVectorStore.__init__ with no files on disk: load() creates the index.
StoreInit ==
    /\ index = create_index
    /\ documents = <<>>
    /\ index_file = MissingFile
    /\ metadata_file = MissingFile
    /\ store_error = FALSE

NextStore ==
    \/ AddDocuments
    \/ Clear
    \/ DeleteBySource
    \/ Save
    \/ Load
    \/ Search
    \/ SaveCrashRestart
    \/ DamageFile

InitStore == StoreInit /\ ChunkIdle /\ RouterIdle /\ LogIdle /\ AskIdle /\ ServeIdle /\ DdgIdle /\ IngestIdle /\ WorkersIdle

SpecStore == InitStore /\ [][NextStore]_vars

\* C1: after any sequence of add_documents, clear, delete_by_source, save and
\* load calls, the metadata store has as many entries as the index has
\* vectors, and the Nth entry belongs to the Nth vector.
C1_StoresAligned ==
    /\ Len(documents) = Len(index)
    /\ \A i \in 1..Len(documents) :
           i <= Len(index) => index[i] = Embed(documents[i].content)

\* C14: add_documents is all-or-nothing: if encoding the texts fails, neither
\* the index nor the metadata store changes; if it succeeds, every text of
\* the call is appended to both, in the order given.
C14_AddDocumentsAllOrNothing ==
    [][\A texts \in SeqUpTo(Texts, MaxBatch), metadatas \in MetadataArgs,
          encode_ok \in BOOLEAN :
          AddDocumentsCall(texts, metadatas, encode_ok) =>
              IF encode_ok \/ texts = <<>>
              THEN /\ index' = index \o encode_documents(texts)
                   /\ Len(documents') = Len(documents) + Len(texts)
                   /\ SubSeq(documents', 1, Len(documents)) = documents
                   /\ \A i \in 1..Len(texts) :
                         documents'[Len(documents) + i].content = texts[i]
              ELSE index' = index /\ documents' = documents]_vars

\* C13: if the process crashes at any point during save(), the next load()
\* observes either the complete previously saved pair (what load() gave on the
\* files as they were before the save) or the complete new pair (the index
\* and documents being saved), never files of different saves nor a partly
\* written file.
C13_CrashInSaveLeavesAPair ==
    [][SaveCrashRestart =>
          LET previous == load(create_index, <<>>, index_file, metadata_file)
          IN \/ (index' = previous.index /\ documents' = previous.documents)
             \/ (index' = index /\ documents' = documents)]_vars

\* C15: delete_by_source(s) is all-or-nothing: when it returns or raises, the
\* store holds either exactly its prior entries or exactly the prior entries
\* whose filename differs from s (order kept, doc_ids renumbered from 0),
\* never an intermediate state such as an empty store, also when the
\* re-encoding of the rebuild fails.
C15_DeleteBySourceAllOrNothing ==
    [][\A source \in Files, encode_ok \in BOOLEAN :
          DeleteBySourceCall(source, encode_ok) =>
              LET kept == filter_docs(documents, source)
              IN \/ (index' = index /\ documents' = documents)
                 \/ /\ documents' = [i \in 1..Len(kept) |->
                                        [content |-> kept[i].content,
                                         metadata |-> kept[i].metadata,
                                         doc_id |-> i - 1]]
                    /\ index' = [i \in 1..Len(kept) |-> Embed(kept[i].content)]]_vars

\* C17: search on a store with zero entries (initially, after clear, after a
\* failed load, after delete_by_source removed everything) returns an empty
\* sequence and raises no error, for every query and every k.
C17_SearchOnEmptyStore ==
    (observed.called /\ observed.ntotal = 0) =>
        (~observed.raised /\ observed.results = <<>>)

\* A search was made on an index that a failed load emptied while the
\* documents list kept its entries.
C17_Witness ==
    /\ observed.called
    /\ observed.ntotal = 0
    /\ observed.ndocuments > 0
    /\ ~observed.raised
    /\ observed.results = <<>>

\* The files load() does not accept: one of the two is missing or unreadable.
FilesUnusable ==
    index_file.kind # "ok" \/ metadata_file.kind # "ok"

\* C12: whenever load() finds the index file or the metadata file missing or
\* corrupt, it raises no error and leaves a fresh empty store: no vector and
\* no metadata entry, whatever the store held before the call.
C12_LoadFallsBackToEmpty ==
    [][(Load /\ FilesUnusable) =>
          (index' = <<>> /\ documents' = <<>> /\ ~store_error')]_vars

(***************************************************************************)
(* The chunker: backend/utils/pdf_processor.py                             *)
(***************************************************************************)

\* Bounds of the chunker model.
MaxTextLen   == 6     \* length of the raw text
MaxChunkSize == 4     \* chunk_size ranges over 2..MaxChunkSize
MaxSparseLen == 8     \* length of a raw text of words and special characters

\* Characters of the raw text: a word character, two sentence terminators,
\* a blank, and a special character that clean_text removes.
RawChars == {"a", ".", "!", " ", "#"}

\* Characters of a raw text without sentence terminators, such as a row of
\* symbols separated by blanks.
SparseChars == {"a", " ", "#"}

\* re.sub(r'\s+', ' ', text): every run of whitespace becomes one blank.
RECURSIVE collapse_whitespace(_)
collapse_whitespace(s) ==
    IF Len(s) <= 1 THEN s
    ELSE IF s[1] = " " /\ s[2] = " " THEN collapse_whitespace(Tail(s))
    ELSE <<s[1]>> \o collapse_whitespace(Tail(s))

\* re.sub(r'[^\w\s.,!?;:()\[\]-]', '', text): special characters are removed.
IsKept(c) == c # "#"
remove_special(s) == SelectSeq(s, IsKept)

\* str.strip(): leading and trailing whitespace removed.
RECURSIVE lstrip(_)
lstrip(s) == IF s # <<>> /\ s[1] = " " THEN lstrip(Tail(s)) ELSE s
RECURSIVE rstrip(_)
rstrip(s) ==
    IF s # <<>> /\ s[Len(s)] = " " THEN rstrip(SubSeq(s, 1, Len(s) - 1)) ELSE s
strip(s) == rstrip(lstrip(s))

\* clean_text: collapse whitespace, remove special characters, strip.
clean_text(raw) == strip(remove_special(collapse_whitespace(raw)))

\* A Python slice bound: a negative index counts from the end, and both ends
\* are clamped to 0..len.
slice_index(i, n) == IF i < 0 THEN Max(i + n, 0) ELSE Min(i, n)

\* text[a:b] (0-based, b exclusive).
slice(s, a, b) ==
    LET lo == slice_index(a, Len(s))
        hi == slice_index(b, Len(s))
    IN IF lo >= hi THEN <<>> ELSE SubSeq(s, lo + 1, hi)

\* text.rfind(c + ' ', a, b): the highest 0-based position of the two
\* characters inside text[a:b], or -1.
rfind(s, c, a, b) ==
    LET lo == slice_index(a, Len(s))
        hi == slice_index(b, Len(s))
        hits == {i \in lo..(hi - 2) : s[i + 1] = c /\ s[i + 2] = " "}
    IN IF hits = {} THEN -1 ELSE CHOOSE i \in hits : \A j \in hits : j <= i

max3(a, b, c) == Max(a, Max(b, c))

\* The end of the window that starts at st: start + chunk_size, moved back to
\* the last sentence end inside the window when the window is not the last.
window_end(s, st, size) ==
    LET end0 == st + size
    IN IF end0 < Len(s)
       THEN LET sentence_end == max3(rfind(s, ".", st, end0),
                                     rfind(s, "!", st, end0),
                                     rfind(s, "?", st, end0))
            IN IF sentence_end # -1 /\ sentence_end > st
               THEN sentence_end + 1
               ELSE end0
       ELSE end0

SeqRange(s) == {s[i] : i \in 1..Len(s)}

\* chunk_text is called on a raw text with a configuration
\* 0 < chunk_overlap < chunk_size; the text is cleaned first.
ChunkInit ==
    \E raw \in SeqUpTo(RawChars, MaxTextLen)
                 \cup SeqUpTo(SparseChars, MaxSparseLen),
       size \in 2..MaxChunkSize :
        \E overlap \in 1..(size - 1) :
            /\ text = clean_text(raw)
            /\ chunk_size = size
            /\ chunk_overlap = overlap
            /\ start = 0
            /\ chunks = <<>>
            /\ visited = <<>>
            /\ chunk_pc = "loop"

\* One iteration of `while start < text_length`. An iteration is a function of
\* start alone, so a loop that is back at a start it has processed repeats
\* forever; the model follows it up to that point.
ChunkStep ==
    /\ chunk_pc = "loop"
    /\ start < Len(text)
    /\ start \notin SeqRange(visited)
    /\ LET end == window_end(text, start, chunk_size)
           chunk_text == strip(slice(text, start, end))
       IN /\ chunks' = IF chunk_text # <<>>
                       THEN Append(chunks, [content |-> chunk_text,
                                            chunk_id |-> Len(chunks),
                                            start_char |-> start,
                                            end_char |-> end])
                       ELSE chunks
          /\ start' = end - chunk_overlap
    /\ visited' = Append(visited, start)
    /\ UNCHANGED <<text, chunk_size, chunk_overlap, chunk_pc>>
    /\ ChunkOnly

\* The loop ends and chunk_text returns the chunks.
ChunkReturn ==
    /\ chunk_pc = "loop"
    /\ start >= Len(text)
    /\ chunk_pc' = "done"
    /\ UNCHANGED <<text, chunk_size, chunk_overlap, start, chunks, visited>>
    /\ ChunkOnly

InitChunk == ChunkInit /\ StoreIdle /\ RouterIdle /\ LogIdle /\ AskIdle
                       /\ ServeIdle /\ DdgIdle /\ IngestIdle /\ WorkersIdle

NextChunk ==
    \/ ChunkStep
    \/ ChunkReturn

SpecChunk == InitChunk /\ [][NextChunk]_vars

\* C2: chunk_text terminates for every text and every configuration with
\* 0 < chunk_overlap < chunk_size. The loop is deterministic in start, so it
\* terminates exactly when it is never back at a window start it has
\* already processed.
C2_ChunkTextTerminates ==
    chunk_pc = "loop" => start \notin SeqRange(visited)

\* C18: in the sequence of chunks chunk_text returns, for every i < n-1 the
\* recorded start offset of chunk i+1 is at or before the recorded end
\* offset of chunk i, for every input text.
C18_ConsecutiveChunksOverlap ==
    chunk_pc = "done" =>
        \A i \in 1..(Len(chunks) - 1) :
            chunks[i + 1].start_char <= chunks[i].end_char

\* The 0-based position p of the cleaned text lies inside a returned chunk.
Covered(p) ==
    \E i \in 1..Len(chunks) :
        chunks[i].start_char <= p /\ p < chunks[i].end_char

\* C27: chunk_text loses no text: every character position of the cleaned
\* text lies inside the [start_char, end_char) range of at least one returned
\* chunk, for every input text and every placement of sentence boundaries.
C27_EveryPositionCovered ==
    chunk_pc = "done" => \A p \in 0..(Len(text) - 1) : Covered(p)

(***************************************************************************)
(* The router: backend/agents/controller.py                                *)
(* Strings are sequences of one-character strings, so that `in`, lower(),  *)
(* upper(), strip() and replace() are computed on the characters.          *)
(***************************************************************************)

\* Bounds of the router model.
MaxPhrases == 2     \* a query is 1..MaxPhrases phrases joined by blanks
MaxNames   == 2     \* the AGENTS field names 1..MaxNames comma-separated names

\* AgentType (models.py)
CONTROLLER == "controller"
PDF_RAG    == "pdf_rag"
WEB_SEARCH == "web_search"
ARXIV      == "arxiv"
AgentType  == {CONTROLLER, PDF_RAG, WEB_SEARCH, ARXIV}

\* Confidences are in hundredths: 0.7 is 70.
RULE_CONFIDENCE        == 70
DEFAULT_LLM_CONFIDENCE == 80
CONFIDENCE_MIN         == 0
CONFIDENCE_MAX         == 100

\* web_explicit_keywords (controller.py:182)
web_explicit_keywords == {
    <<"s", "e", "a", "r", "c", "h", " ", "w", "e", "b">>,
    <<"g", "o", "o", "g", "l", "e", " ", "s", "e", "a", "r", "c", "h">>,
    <<"w", "e", "b", " ", "s", "e", "a", "r", "c", "h">>,
    <<"s", "e", "a", "r", "c", "h", " ", "o", "n", "l", "i", "n", "e">>,
    <<"s", "e", "a", "r", "c", "h", " ", "i", "n", "t", "e", "r", "n", "e", "t">>,
    <<"f", "i", "n", "d", " ", "o", "n", "l", "i", "n", "e">>,
    <<"l", "o", "o", "k", " ", "u", "p", " ", "o", "n", "l", "i", "n", "e">>
}
\* arxiv_keywords (controller.py:188)
arxiv_keywords == {
    <<"a", "r", "x", "i", "v">>,
    <<"p", "a", "p", "e", "r">>,
    <<"r", "e", "s", "e", "a", "r", "c", "h">>,
    <<"p", "u", "b", "l", "i", "c", "a", "t", "i", "o", "n">>,
    <<"s", "t", "u", "d", "y">>,
    <<"a", "c", "a", "d", "e", "m", "i", "c">>,
    <<"j", "o", "u", "r", "n", "a", "l">>,
    <<"f", "i", "n", "d", " ", "p", "a", "p", "e", "r", "s">>,
    <<"s", "c", "i", "e", "n", "t", "i", "f", "i", "c">>
}
\* web_keywords (controller.py:194)
web_keywords == {
    <<"r", "e", "c", "e", "n", "t">>,
    <<"l", "a", "t", "e", "s", "t">>,
    <<"c", "u", "r", "r", "e", "n", "t">>,
    <<"n", "e", "w", "s">>,
    <<"t", "o", "d", "a", "y">>,
    <<"2", "0", "2", "4">>,
    <<"2", "0", "2", "5">>,
    <<"n", "o", "w">>,
    <<"p", "r", "i", "c", "e">>,
    <<"s", "t", "o", "c", "k">>,
    <<"w", "e", "a", "t", "h", "e", "r">>,
    <<"s", "c", "o", "r", "e">>,
    <<"l", "i", "v", "e">>
}
\* doc_keywords (controller.py:201)
doc_keywords == {
    <<"d", "o", "c", "u", "m", "e", "n", "t">>,
    <<"p", "d", "f">>,
    <<"u", "p", "l", "o", "a", "d", "e", "d">>,
    <<"f", "i", "l", "e">>,
    <<"k", "n", "o", "w", "l", "e", "d", "g", "e", " ", "b", "a", "s", "e">>,
    <<"a", "c", "c", "o", "r", "d", "i", "n", "g", " ", "t", "o">>,
    <<"s", "u", "m", "m", "a", "r", "i", "z", "e", " ", "t", "h", "e">>,
    <<"f", "r", "o", "m", " ", "t", "h", "e", " ", "d", "o", "c", "u", "m", "e", "n", "t">>
}
\* general_keywords (controller.py:210)
general_keywords == {
    <<"w", "h", "a", "t", " ", "i", "s">>,
    <<"w", "h", "o", " ", "i", "s">>,
    <<"e", "x", "p", "l", "a", "i", "n">>,
    <<"d", "e", "f", "i", "n", "e">>,
    <<"h", "o", "w", " ", "d", "o", "e", "s">>,
    <<"w", "h", "y">>
}
P_search_the_web == <<"s", "e", "a", "r", "c", "h", " ", "t", "h", "e", " ", "w", "e", "b">>
P_gold_price == <<"f", "o", "r", " ", "c", "u", "r", "r", "e", "n", "t", " ", "g", "o", "l", "d", " ", "p", "r", "i", "c", "e">>
P_web_search == <<"w", "e", "b", " ", "s", "e", "a", "r", "c", "h">>
P_papers == <<"t", "r", "a", "n", "s", "f", "o", "r", "m", "e", "r", " ", "p", "a", "p", "e", "r", "s">>
P_in_the_pdf == <<"i", "n", " ", "t", "h", "e", " ", "P", "D", "F">>
P_what_is == <<"w", "h", "a", "t", " ", "i", "s", " ", "g", "r", "a", "v", "i", "t", "y">>
Phrases == {P_search_the_web, P_gold_price, P_web_search, P_papers, P_in_the_pdf, P_what_is}
N_pdf_rag == <<" ", "p", "d", "f", " ", "r", "a", "g">>
N_web_search == <<"W", "e", "b", "_", "S", "e", "a", "r", "c", "h">>
N_arxiv == <<"a", "r", "x", "i", "v">>
N_pdf_search == <<"P", "D", "F", "_", "S", "E", "A", "R", "C", "H">>
N_unknown == <<"n", "o", "n", "e">>
RawNames == {N_pdf_rag, N_web_search, N_arxiv, N_pdf_search, N_unknown}
S_PDF == <<"P", "D", "F">>
S_RAG == <<"R", "A", "G">>
S_WEB == <<"W", "E", "B">>
S_SEARCH == <<"S", "E", "A", "R", "C", "H">>
S_ARXIV == <<"A", "R", "X", "I", "V">>
UpperLetters == <<"A", "B", "C", "D", "E", "F", "G", "H", "I", "J", "K", "L", "M", "N", "O", "P", "Q", "R", "S", "T", "U", "V", "W", "X", "Y", "Z">>
LowerLetters == <<"a", "b", "c", "d", "e", "f", "g", "h", "i", "j", "k", "l", "m", "n", "o", "p", "q", "r", "s", "t", "u", "v", "w", "x", "y", "z">>

\* `k in s` of Python strings.
Contains(s, k) ==
    \E i \in 0..(Len(s) - Len(k)) : \A j \in 1..Len(k) : s[i + j] = k[j]

\* any(keyword in s for keyword in keywords)
any_keyword_in(keywords, s) == \E k \in keywords : Contains(s, k)

letter_index(letters, c) ==
    IF \E i \in 1..Len(letters) : letters[i] = c
    THEN CHOOSE i \in 1..Len(letters) : letters[i] = c
    ELSE 0

\* str.lower() and str.upper()
lower(s) ==
    [i \in 1..Len(s) |->
        LET k == letter_index(UpperLetters, s[i])
        IN IF k = 0 THEN s[i] ELSE LowerLetters[k]]
upper(s) ==
    [i \in 1..Len(s) |->
        LET k == letter_index(LowerLetters, s[i])
        IN IF k = 0 THEN s[i] ELSE UpperLetters[k]]

\* str.replace(" ", "_")
replace_blank(s) == [i \in 1..Len(s) |-> IF s[i] = " " THEN "_" ELSE s[i]]

\* " ".join(phrases)
RECURSIVE join(_)
join(ps) ==
    IF Len(ps) = 0 THEN <<>>
    ELSE IF Len(ps) = 1 THEN ps[1]
    ELSE ps[1] \o <<" ">> \o join(Tail(ps))

\* The queries of the model (QueryRequest.query is never empty).
Queries == {join(ps) : ps \in SeqUpTo(Phrases, MaxPhrases) \ {<<>>}}

\* The replies of the LLM call: it raises (backend unreachable), or returns a
\* text in which the three fields are matched or not. The AGENTS field, when
\* matched, is one or more comma-separated names (str.split never returns an
\* empty list); the CONFIDENCE field is absent, a number, or digits and dots
\* that float() rejects.
Confidences ==
    {[kind |-> "absent", value |-> 0], [kind |-> "malformed", value |-> 0]}
        \cup {[kind |-> "number", value |-> v] : v \in {100, 150}}
LLMReplies ==
    {[raises |-> TRUE, agents_match |-> FALSE, names |-> <<>>,
      confidence |-> [kind |-> "absent", value |-> 0], rationale_match |-> FALSE],
     [raises |-> FALSE, agents_match |-> FALSE, names |-> <<>>,
      confidence |-> [kind |-> "absent", value |-> 0], rationale_match |-> TRUE]}
        \cup [raises : {FALSE}, agents_match : {TRUE},
              names : SeqUpTo(RawNames, MaxNames) \ {<<>>},
              confidence : Confidences, rationale_match : BOOLEAN]

\* AgentDecision: pydantic rejects a confidence outside [0, 1].
AgentDecision_unvalidated(confidence) == TRUE
AgentDecision_valid(confidence) ==
    CONFIDENCE_MIN <= confidence /\ confidence <= CONFIDENCE_MAX

\* The five rules of route_with_rules, each on the decision so far
\* (d.agents, d.parts) and the lowercased query.
rule_explicit_web(d, query_lower) ==
    IF any_keyword_in(web_explicit_keywords, query_lower)
    THEN [agents |-> Append(d.agents, WEB_SEARCH),
          parts |-> Append(d.parts, "explicit web search requested")]
    ELSE d

rule_arxiv(d, query_lower) ==
    IF any_keyword_in(arxiv_keywords, query_lower)
    THEN [agents |-> Append(d.agents, ARXIV),
          parts |-> Append(d.parts, "query mentions research/papers")]
    ELSE d

rule_recency(d, query_lower) ==
    IF any_keyword_in(web_keywords, query_lower)
          /\ WEB_SEARCH \notin SeqRange(d.agents)
    THEN [agents |-> Append(d.agents, WEB_SEARCH),
          parts |-> Append(d.parts, "query asks for recent/current information")]
    ELSE d

rule_documents(d, query_lower, has_docs) ==
    IF any_keyword_in(doc_keywords, query_lower) /\ has_docs
          /\ PDF_RAG \notin SeqRange(d.agents)
    THEN [agents |-> Append(d.agents, PDF_RAG),
          parts |-> Append(d.parts, "query references documents")]
    ELSE d

\* (mutant) route_with_rules without its default branch.
rule_default_missing(d, query_lower, has_docs) == d

rule_default(d, query_lower, has_docs) ==
    IF d.agents = <<>>
    THEN IF any_keyword_in(general_keywords, query_lower) /\ has_docs
         THEN [agents |-> Append(d.agents, PDF_RAG),
               parts |-> Append(d.parts,
                                "checking knowledge base for general question")]
         ELSE [agents |-> Append(d.agents, WEB_SEARCH),
               parts |-> Append(d.parts, "default to web search")]
    ELSE d

\* route_with_rules
route_with_rules(q, has_docs) ==
    LET query_lower == lower(q)
        d0 == [agents |-> <<>>, parts |-> <<>>]
        d1 == rule_explicit_web(d0, query_lower)
        d2 == rule_arxiv(d1, query_lower)
        d3 == rule_recency(d2, query_lower)
        d4 == rule_documents(d3, query_lower, has_docs)
        d5 == rule_default(d4, query_lower, has_docs)
    IN [agents_to_call |-> d5.agents,
        rationale |-> [prefix |-> "Rule-based routing: ", parts |-> d5.parts],
        confidence |-> RULE_CONFIDENCE,
        logged_as |-> "rule_based_routing"]

\* name.strip().upper().replace(" ", "_")
normalize_name(raw) == replace_blank(upper(strip(raw)))

\* (mutant) the mapping without its `if has_indexed_docs` test.
agent_of_name_ignoring_index(name, has_docs) ==
    IF Contains(name, S_PDF) \/ Contains(name, S_RAG)
    THEN <<PDF_RAG>>
    ELSE IF Contains(name, S_WEB) \/ Contains(name, S_SEARCH)
    THEN <<WEB_SEARCH>>
    ELSE IF Contains(name, S_ARXIV)
    THEN <<ARXIV>>
    ELSE <<>>

agent_of_name_defaulting(name, has_docs) ==
    IF Contains(name, S_PDF) \/ Contains(name, S_RAG)
    THEN IF has_docs THEN <<PDF_RAG>> ELSE <<>>
    ELSE IF Contains(name, S_WEB) \/ Contains(name, S_SEARCH)
    THEN <<WEB_SEARCH>>
    ELSE <<ARXIV>>

\* The if/elif chain that maps one normalized name to at most one agent.
agent_of_name(name, has_docs) ==
    IF Contains(name, S_PDF) \/ Contains(name, S_RAG)
    THEN IF has_docs THEN <<PDF_RAG>> ELSE <<>>
    ELSE IF Contains(name, S_WEB) \/ Contains(name, S_SEARCH)
    THEN <<WEB_SEARCH>>
    ELSE IF Contains(name, S_ARXIV)
    THEN <<ARXIV>>
    ELSE <<>>

RECURSIVE map_names(_, _)
map_names(names, has_docs) ==
    IF names = <<>> THEN <<>>
    ELSE agent_of_name(normalize_name(Head(names)), has_docs)
             \o map_names(Tail(names), has_docs)

\* list(dict.fromkeys(xs)): duplicates removed, first occurrence kept.
keep_duplicates(xs) == xs
RECURSIVE remove_duplicates(_)
remove_duplicates(xs) ==
    IF xs = <<>> THEN <<>>
    ELSE LET init == remove_duplicates(SubSeq(xs, 1, Len(xs) - 1))
             last == xs[Len(xs)]
         IN IF last \in SeqRange(init) THEN init ELSE Append(init, last)

\* (mutant) route_with_llm without its `if not agents_to_call` fallback.
never_fall_back(agents_to_call) == FALSE

\* `if not agents_to_call`: nothing selected, the rules decide.
no_agents_selected(agents_to_call) == agents_to_call = <<>>

\* route_with_llm on the reply of the LLM call; every exception inside the
\* try block (the call itself, float(), the AgentDecision validation) ends in
\* route_with_rules.
route_with_llm(q, has_docs, reply) ==
    IF reply.raises THEN route_with_rules(q, has_docs)
    ELSE IF ~reply.agents_match THEN route_with_rules(q, has_docs)
    ELSE LET agents_to_call == remove_duplicates(map_names(reply.names, has_docs))
         IN IF no_agents_selected(agents_to_call)
            THEN route_with_rules(q, has_docs)
            ELSE IF reply.confidence.kind = "malformed"
            THEN route_with_rules(q, has_docs)
            ELSE LET confidence == IF reply.confidence.kind = "number"
                                   THEN reply.confidence.value
                                   ELSE DEFAULT_LLM_CONFIDENCE
                     rationale == IF reply.rationale_match
                                  THEN "rationale of the reply"
                                  ELSE "LLM routing decision"
                 IN IF AgentDecision_valid(confidence)
                    THEN [agents_to_call |-> agents_to_call,
                          rationale |-> [prefix |-> "", parts |-> <<rationale>>],
                          confidence |-> confidence,
                          logged_as |-> "llm_routing"]
                    ELSE route_with_rules(q, has_docs)

\* A routing request arrives: ControllerAgent.process(query, has_indexed_docs, use_llm).
RouterInit ==
    /\ query \in Queries
    /\ has_indexed_docs \in BOOLEAN
    /\ use_llm \in BOOLEAN
    /\ llm_reply = NoReply
    /\ decision = NoDecision
    /\ router_pc = "routing"

\* process with use_llm: the LLM is called and route_with_llm decides.
RouteWithLlm ==
    /\ router_pc = "routing"
    /\ use_llm
    /\ \E reply \in LLMReplies :
          /\ llm_reply' = reply
          /\ decision' = route_with_llm(query, has_indexed_docs, reply)
    /\ router_pc' = "done"
    /\ UNCHANGED <<query, has_indexed_docs, use_llm>>
    /\ RouterOnly

\* process without use_llm: route_with_rules decides.
RouteWithRules ==
    /\ router_pc = "routing"
    /\ ~use_llm
    /\ decision' = route_with_rules(query, has_indexed_docs)
    /\ router_pc' = "done"
    /\ UNCHANGED <<query, has_indexed_docs, use_llm, llm_reply>>
    /\ RouterOnly

InitRouter == RouterInit /\ StoreIdle /\ ChunkIdle /\ LogIdle /\ AskIdle
                         /\ ServeIdle /\ DdgIdle /\ IngestIdle /\ WorkersIdle

NextRouter ==
    \/ RouteWithLlm
    \/ RouteWithRules

SpecRouter == InitRouter /\ [][NextRouter]_vars

Capabilities == {PDF_RAG, WEB_SEARCH, ARXIV}

\* C3: whatever the query, has_indexed_docs and the outcome of the LLM call,
\* the decision route_with_llm returns holds at least one capability, and
\* every capability in it is one of PDF_RAG, WEB_SEARCH, ARXIV.
C3_LlmDecisionHasCapability ==
    (router_pc = "done" /\ use_llm) =>
        /\ decision.agents_to_call # <<>>
        /\ SeqRange(decision.agents_to_call) \subseteq Capabilities

\* C3 witness: the LLM call raised and route_with_llm returned a capability.
C3_Witness ==
    /\ router_pc = "done" /\ use_llm
    /\ llm_reply.raises
    /\ decision.agents_to_call # <<>>

\* C5: no decision, of route_with_llm or of route_with_rules, contains PDF_RAG
\* when the index is empty.
C5_NoPdfRagOnEmptyIndex ==
    (router_pc = "done" /\ ~has_indexed_docs) =>
        PDF_RAG \notin SeqRange(decision.agents_to_call)

\* C5 witness: the index is empty, the reply names PDF_SEARCH and WEB_SEARCH,
\* and the LLM decision is returned.
C5_Witness ==
    /\ router_pc = "done" /\ use_llm /\ ~has_indexed_docs
    /\ llm_reply.agents_match
    /\ N_pdf_search \in SeqRange(llm_reply.names)
    /\ decision.logged_as = "llm_routing"

\* The reply proposes document-index search: one of its names contains PDF or RAG.
ProposesPdf(reply) ==
    /\ ~reply.raises
    /\ reply.agents_match
    /\ \E i \in 1..Len(reply.names) :
          LET name == normalize_name(reply.names[i])
          IN Contains(name, S_PDF) \/ Contains(name, S_RAG)

\* The reply names a capability other than document-index search.
ProposesOther(reply) ==
    \E i \in 1..Len(reply.names) :
        LET name == normalize_name(reply.names[i])
        IN /\ ~(Contains(name, S_PDF) \/ Contains(name, S_RAG))
           /\ \/ Contains(name, S_WEB)
              \/ Contains(name, S_SEARCH)
              \/ Contains(name, S_ARXIV)

\* The CONFIDENCE field of the reply yields a confidence AgentDecision accepts.
UsableConfidence(reply) ==
    /\ reply.confidence.kind # "malformed"
    /\ reply.confidence.kind = "number" => reply.confidence.value <= CONFIDENCE_MAX

C7_SearchTheWebSelectsWeb ==
    (/\ router_pc = "done"
     /\ decision.logged_as = "rule_based_routing"
     /\ has_indexed_docs
     /\ Contains(lower(query), P_search_the_web)) =>
        WEB_SEARCH \in SeqRange(decision.agents_to_call)

GoldPriceQuery == join(<<P_search_the_web, P_gold_price>>)

\* C8: for "search the web for current gold price" the rule-based decision
\* selects exactly WEB_SEARCH, with the rule-based confidence, and its
\* rationale names the explicit web-search rule.
C8_GoldPriceScenario ==
    (/\ router_pc = "done"
     /\ decision.logged_as = "rule_based_routing"
     /\ query = GoldPriceQuery) =>
        /\ decision.agents_to_call = <<WEB_SEARCH>>
        /\ decision.confidence = RULE_CONFIDENCE
        /\ "explicit web search requested" \in SeqRange(decision.rationale.parts)

\* route_with_llm has parsed the names of the reply.
NamesParsed ==
    /\ router_pc = "done" /\ use_llm
    /\ ~llm_reply.raises
    /\ llm_reply.agents_match

\* The words of the claim, in lower case.
Word_web == lower(S_WEB)
Word_search == lower(S_SEARCH)
Word_pdf == lower(S_PDF)
Word_rag == lower(S_RAG)
Word_arxiv == lower(S_ARXIV)

\* The name, already in lower case, contains the word (a name contains a
\* word case-insensitively when its lower-case form contains it).
NamesWeb(low) == Contains(low, Word_web) \/ Contains(low, Word_search)
NamesPdf(low) == Contains(low, Word_pdf) \/ Contains(low, Word_rag)
NamesArxiv(low) == Contains(low, Word_arxiv)

\* C25 (as claimed): every capability name that contains "web" or "search"
\* maps to live-web search, whatever else the name contains; names matching
\* no known capability are dropped.
C25_WebOrSearchMapsToWeb ==
    NamesParsed =>
        \A i \in 1..Len(llm_reply.names) :
            LET raw == lower(llm_reply.names[i])
                mapped == agent_of_name(normalize_name(llm_reply.names[i]),
                                        has_indexed_docs)
            IN /\ NamesWeb(raw) => mapped = <<WEB_SEARCH>>
               /\ ~(NamesWeb(raw) \/ NamesPdf(raw) \/ NamesArxiv(raw))
                     => mapped = <<>>

\* C25 (amended): a name that contains "pdf" or "rag" is a proposal of
\* document-index search, whatever else it contains (PDF_RAG with a
\* non-empty index, dropped otherwise); every other name that contains "web"
\* or "search" maps to live-web search; names matching no known capability
\* are dropped; and a returned LLM decision holds exactly the capabilities
\* the names map to.
C25_WebOrSearchMapsToWebUnlessPdf ==
    NamesParsed =>
        /\ \A i \in 1..Len(llm_reply.names) :
              LET raw == lower(llm_reply.names[i])
                  mapped == agent_of_name(normalize_name(llm_reply.names[i]),
                                          has_indexed_docs)
              IN /\ NamesPdf(raw) =>
                       mapped = IF has_indexed_docs THEN <<PDF_RAG>> ELSE <<>>
                 /\ (NamesWeb(raw) /\ ~NamesPdf(raw)) => mapped = <<WEB_SEARCH>>
                 /\ ~(NamesWeb(raw) \/ NamesPdf(raw) \/ NamesArxiv(raw))
                       => mapped = <<>>
        /\ decision.logged_as = "llm_routing" =>
              SeqRange(decision.agents_to_call)
                  = UNION {SeqRange(agent_of_name(normalize_name(llm_reply.names[i]),
                                                  has_indexed_docs))
                              : i \in 1..Len(llm_reply.names)}

\* The reply names PDF_SEARCH and an unknown capability on a non-empty index,
\* and the LLM decision is returned without live-web search.
C25_Witness ==
    /\ NamesParsed /\ has_indexed_docs
    /\ llm_reply.names = <<N_pdf_search, N_unknown>>
    /\ decision.logged_as = "llm_routing"
    /\ decision.agents_to_call = <<PDF_RAG>>

MaxRequests == 2

\* "if len(logs) > 1000: logs = logs[-1000:]" and "limit: int = 50".
LOG_CAP       == 1000
DEFAULT_LIMIT == 50

\* The limits get_logs is called with (limit is any int of the /logs query).
Limits == {0, 1, DEFAULT_LIMIT, LOG_CAP}

\* The log file: a JSON list of entries, or a file json.load cannot read (it
\* was truncated by open(.., 'w') and the dump did not complete).
LogFile(entries) == [kind |-> "json", data |-> entries]
UnreadableLog == [kind |-> "unreadable", data |-> <<>>]

\* The summary of an agent response that is logged (no passage content).
summary(resp) ==
    [agent_type |-> resp.agent_type, success |-> resp.success,
     error |-> resp.error, num_retrieved_docs |-> Len(resp.retrieved_docs)]

\* The entry log_request builds for the n-th call ever made on the file;
\* request_id is a fresh uuid4, modelled by the number of the call.
log_entry(n, q, d, responses, answer) ==
    [request_id |-> n,
     query |-> q,
     decision |-> [agents_called |-> d.agents_to_call,
                   rationale |-> d.rationale,
                   confidence |-> d.confidence],
     agent_responses |-> [i \in 1..Len(responses) |-> summary(responses[i])],
     final_answer |-> answer]

\* The entry of the n-th call of the log model: every call logs the same
\* request, so that entries differ in request_id only.
logged_entry(n) == log_entry(n, <<>>, NoDecision, <<>>, NoAnswer)

\* The entries of the calls first..last, in logging order.
Entries(first, last) ==
    IF last < first THEN <<>>
    ELSE [i \in 1..(last - first + 1) |-> logged_entry(first + i - 1)]

\* What an intact log holds after n calls: the last min(n, LOG_CAP) entries.
MostRecent(n) == Entries(Max(1, n - LOG_CAP + 1), n)

\* _read_logs: the parsed list, or [] when opening or parsing raises.
read_logs(file, read_ok) ==
    IF read_ok /\ file.kind = "json" THEN file.data ELSE <<>>

\* The ways _write_logs ends: the dump completes; open raises and the file is
\* untouched; open truncated the file and the dump raised part-way.  The
\* exception is swallowed in both failing cases.
WriteOutcomes == {"written", "not_opened", "truncated"}
write_logs(file, logs, outcome) ==
    CASE outcome = "written"    -> LogFile(logs)
      [] outcome = "not_opened" -> file
      [] outcome = "truncated"  -> UnreadableLog

\* "if len(logs) > 1000: logs = logs[-1000:]"
keep_last(logs) ==
    IF Len(logs) > LOG_CAP THEN slice(logs, 0 - LOG_CAP, Len(logs)) ELSE logs

\* log_request: read, append, keep the last LOG_CAP, write back.
log_request(file, entry, read_ok, outcome) ==
    write_logs(file, keep_last(Append(read_logs(file, read_ok), entry)), outcome)

\* get_logs: "logs = self._read_logs(); return logs[-limit:]".
get_logs(file, limit, read_ok) ==
    LET logs == read_logs(file, read_ok)
    IN slice(logs, 0 - limit, Len(logs))

\* The log files a run starts with: the empty list __init__ writes, or the
\* file earlier runs left after n calls (one below the cap, and cap + 49).
PriorCalls == {0, LOG_CAP - 1, LOG_CAP + 49}
LogInit ==
    /\ nlogged \in PriorCalls
    /\ log_file = LogFile(MostRecent(nlogged))
    /\ log_calls = 0
    /\ log_returned = NothingReturned

LogRequest ==
    /\ log_calls < MaxRequests
    /\ \E read_ok \in BOOLEAN, outcome \in WriteOutcomes :
          /\ log_file' = log_request(log_file, logged_entry(nlogged + 1),
                                     read_ok, outcome)
          /\ log_returned' = [NothingReturned EXCEPT !.op = "log_request",
                                                     !.request_id = nlogged + 1]
    /\ nlogged' = nlogged + 1
    /\ log_calls' = log_calls + 1
    /\ LogOnly

GetLogs ==
    /\ \E limit \in Limits, read_ok \in BOOLEAN :
          log_returned' = [NothingReturned EXCEPT
                              !.op = "get_logs",
                              !.limit = limit,
                              !.read = read_logs(log_file, read_ok),
                              !.logs = get_logs(log_file, limit, read_ok)]
    /\ UNCHANGED <<log_file, nlogged, log_calls>>
    /\ LogOnly

InitLog == LogInit /\ StoreIdle /\ ChunkIdle /\ RouterIdle /\ AskIdle /\ ServeIdle /\ DdgIdle /\ IngestIdle /\ WorkersIdle
NextLog == LogRequest \/ GetLogs
SpecLog == InitLog /\ [][NextLog]_vars

\* C9: the log holds at most LOG_CAP entries, they are the most recently
\* logged entries in logging order, and once LOG_CAP + 50 requests were logged
\* get_logs(limit = LOG_CAP) returns exactly the LOG_CAP most recent entries.
C9_LogHoldsMostRecent ==
    /\ Len(read_logs(log_file, TRUE)) <= LOG_CAP
    /\ read_logs(log_file, TRUE) = MostRecent(nlogged)
    /\ (/\ log_returned.op = "get_logs"
        /\ log_returned.limit = LOG_CAP
        /\ nlogged >= LOG_CAP + 50)
       => log_returned.logs = MostRecent(nlogged)

\* C10: get_logs(limit) returns at most limit entries, and they are the last
\* min(limit, number of entries) entries of the log it read.
C10_GetLogsAtMostLimit ==
    log_returned.op = "get_logs" =>
        LET n == Len(log_returned.read)
            k == Min(log_returned.limit, n)
        IN /\ Len(log_returned.logs) <= log_returned.limit
           /\ log_returned.logs = SubSeq(log_returned.read, n - k + 1, n)

\* C11: the log is append-only: a log_request call never removes or changes
\* an existing entry except by evicting the oldest entries beyond the cap,
\* also when reading the existing log fails at the time of the call.  With
\* old and new the entries of the file before and after the call, old minus
\* its evicted head is the beginning of new, and entries are evicted only
\* when new is filled to the cap.
C11_LogAppendOnly ==
    [][nlogged' = nlogged + 1 =>
          LET old == read_logs(log_file, TRUE)
              new == read_logs(log_file', TRUE)
          IN \E k \in {0, Max(0, Len(old) + 1 - LOG_CAP)} :
                /\ k > 0 => Len(new) = LOG_CAP
                /\ Len(new) >= Len(old) - k
                /\ SubSeq(old, k + 1, Len(old)) = SubSeq(new, 1, Len(old) - k)]_vars

(***************************************************************************)
(* The orchestrator: ask_query and synthesize_answer of backend/main.py,   *)
(* BaseAgent.execute, and process of the three retrieval agents            *)
(***************************************************************************)

\* settings.WEB_SEARCH_RESULTS, ARXIV_MAX_RESULTS; the
\* retrieved_docs[:3] of synthesize_answer and the all_sources[:10] of ask_query.
WEB_SEARCH_RESULTS == 5
ARXIV_MAX_RESULTS  == 5
CONTEXT_DOCS       == 3
CONTENT_CHARS      == 800
FALLBACK_CHARS     == 1000
SOURCES_CAP        == 10

\* The queries of the orchestrator model: one phrase, or the three phrases
\* that fire the web, the ArXiv and the document rule together.
Q_all_three == join(<<P_web_search, P_papers, P_in_the_pdf>>)
AskQueries == Phrases \cup {Q_all_three}

\* The vector store a request finds: n chunks of a.pdf indexed by index_pdf.
IndexedTexts(n) == [i \in 1..n |-> IF i % 2 = 1 THEN "t1" ELSE "t2"]
AskStore(n) ==
    add_documents(create_index, <<>>, IndexedTexts(n),
                  [given |-> TRUE, list |-> [i \in 1..n |-> [filename |-> "a.pdf"]]])
AskStoreSizes == {0, 1, TOP_K_RETRIEVAL}

\* The lengths, in characters, of the texts the answer is built from: a chunk
\* of a PDF has at most CHUNK_SIZE characters, and the model's chunks are
\* full ones; the file name is "a.pdf" or "unknown"; a link has MaxLinkChars
\* characters; the content of a web or ArXiv result is short or long.
MaxLinkChars   == 30
CHUNK_SIZE     == 500
FILENAME_CHARS == Len(<<"a", ".", "p", "d", "f">>)
UNKNOWN_CHARS  == Len(<<"u", "n", "k", "n", "o", "w", "n">>)
PassageChars   == {100, 1200}

\* PDFRAGAgent.retrieve: the search results as DocumentChunks; chars and
\* source_chars are the lengths of content and source.
retrieve(idx, docs, top_k) ==
    LET results == search(idx, docs, top_k)
    IN [j \in 1..Len(results) |->
           [content |-> results[j].content,
            source |-> IF results[j].metadata.filename = "none" THEN "unknown"
                       ELSE results[j].metadata.filename,
            score |-> results[j].score,
            chars |-> CHUNK_SIZE,
            source_chars |-> IF results[j].metadata.filename = "none"
                             THEN UNKNOWN_CHARS ELSE FILENAME_CHARS]]

\* search_and_summarize / search_and_format: the n results as DocumentChunks,
\* "score = 1.0 - (i * 0.1)" for i = 0, 1, ...
ranked_results(kind, n, chars) ==
    [j \in 1..n |-> [content |-> <<kind, "content", j>>,
                     source |-> <<kind, "link", j>>,
                     score |-> 100 - (j - 1) * 10,
                     chars |-> chars,
                     source_chars |-> MaxLinkChars]]

\* AgentResponse(success = True, retrieved_docs = ...) and
\* AgentResponse(success = False, error = ..., retrieved_docs = []).
succeeded(agent_type, retrieved) ==
    [agent_type |-> agent_type, success |-> TRUE, error |-> "none",
     retrieved_docs |-> retrieved]
failed(agent_type, error) ==
    [agent_type |-> agent_type, success |-> FALSE, error |-> error,
     retrieved_docs |-> <<>>]

\* What the backend of a capability does in one call: it raises, or it
\* returns some number of results (the vector store returns what it holds).
RAISED == "raised"
ResultSizes(cap) == {0, 1, cap}
Outcomes(cap) ==
    {[raises |-> TRUE, found |-> 0, chars |-> 0]}
        \cup [raises : {FALSE}, found : ResultSizes(cap), chars : PassageChars]

\* PDFRAGAgent.process
pdf_process(idx, docs, top_k, outcome) ==
    IF Len(idx) = 0
    THEN failed(PDF_RAG, "No documents indexed. Please upload PDFs first.")
    ELSE IF outcome.raises THEN failed(PDF_RAG, RAISED)
    ELSE LET retrieved == retrieve(idx, docs, top_k)
         IN IF retrieved = <<>>
            THEN failed(PDF_RAG, "No relevant documents found for the query.")
            ELSE succeeded(PDF_RAG, retrieved)

\* WebSearchAgent.process
web_process(outcome) ==
    IF outcome.raises THEN failed(WEB_SEARCH, RAISED)
    ELSE LET retrieved == ranked_results("web", outcome.found, outcome.chars)
         IN IF retrieved = <<>>
            THEN failed(WEB_SEARCH, "No web search results found.")
            ELSE succeeded(WEB_SEARCH, retrieved)

\* ArXivAgent.process
arxiv_process(outcome) ==
    IF outcome.raises THEN failed(ARXIV, RAISED)
    ELSE LET retrieved == ranked_results("arxiv", outcome.found, outcome.chars)
         IN IF retrieved = <<>>
            THEN failed(ARXIV, "No ArXiv papers found for the query.")
            ELSE succeeded(ARXIV, retrieved)

\* BaseAgent.execute of the agent ask_query picks for agent_type: the
\* response of process; an exception becomes a response with success = False.
execute(agent_type, idx, docs, outcome) ==
    CASE agent_type = PDF_RAG    -> pdf_process(idx, docs, TOP_K_RETRIEVAL, outcome)
      [] agent_type = WEB_SEARCH -> web_process(outcome)
      [] agent_type = ARXIV      -> arxiv_process(outcome)

\* The results a capability can be given in one call.
OutcomesOf(agent_type) ==
    CASE agent_type = PDF_RAG    -> Outcomes(TOP_K_RETRIEVAL)
      [] agent_type = WEB_SEARCH -> Outcomes(WEB_SEARCH_RESULTS)
      [] agent_type = ARXIV      -> Outcomes(ARXIV_MAX_RESULTS)

\* The context synthesize_answer collects: for every successful response with
\* documents, the agent and its first CONTEXT_DOCS documents.
has_context_always(resp) == TRUE
has_context(resp) == resp.success /\ resp.retrieved_docs # <<>>
context_parts(responses) ==
    LET used == SelectSeq(responses, has_context)
    IN [i \in 1..Len(used) |->
           [agent_name |-> used[i].agent_type,
            docs |-> slice(used[i].retrieved_docs, 0, CONTEXT_DOCS)]]

\* The lines synthesize_answer appends for one agent, each with its length:
\* f"\n=== Information from {agent_name.upper()} ===", then for the i-th
\* document f"\n[Source {i}]", doc.content[:800] and f"(Source: {doc.source})".
agent_name_chars(agent_name) ==
    CASE agent_name = PDF_RAG    -> Len(<<"p", "d", "f", "_", "r", "a", "g">>)
      [] agent_name = WEB_SEARCH -> Len(<<"w", "e", "b", "_", "s", "e", "a", "r", "c", "h">>)
      [] agent_name = ARXIV      -> Len(<<"a", "r", "x", "i", "v">>)
header_line(agent_name) ==
    [kind |-> "header", agent_name |-> agent_name, doc_no |-> 0,
     chars |-> 26 + agent_name_chars(agent_name)]
doc_line(agent_name, docs, k) ==
    LET i == (k + 2) \div 3
    IN CASE k % 3 = 1 -> [kind |-> "label", agent_name |-> agent_name,
                          doc_no |-> i, chars |-> 11]
         [] k % 3 = 2 -> [kind |-> "passage", agent_name |-> agent_name,
                          doc_no |-> i,
                          chars |-> Min(docs[i].chars, CONTENT_CHARS)]
         [] k % 3 = 0 -> [kind |-> "citation", agent_name |-> agent_name,
                          doc_no |-> i, chars |-> 10 + docs[i].source_chars]
part_lines(part) ==
    <<header_line(part.agent_name)>>
        \o [k \in 1..(3 * Len(part.docs)) |->
               doc_line(part.agent_name, part.docs, k)]

\* context_parts as the list of its lines, in order.
RECURSIVE context_lines(_)
context_lines(context) ==
    IF context = <<>> THEN <<>>
    ELSE part_lines(Head(context)) \o context_lines(Tail(context))

\* ("\n".join(lines))[:budget]: the lines that fit, the last one cut; a
\* line that is kept is followed by the "\n" that joins it to the next.
RECURSIVE truncate(_, _)
truncate(lines, budget) ==
    IF lines = <<>> \/ budget <= 0 THEN <<>>
    ELSE IF Head(lines).chars >= budget
         THEN <<[Head(lines) EXCEPT !.chars = budget]>>
         ELSE <<Head(lines)>>
                 \o truncate(Tail(lines), budget - Head(lines).chars - 1)

\* The number of characters of "\n".join(lines).
RECURSIVE joined_chars(_)
joined_chars(lines) ==
    IF lines = <<>> THEN 0
    ELSE IF Len(lines) = 1 THEN lines[1].chars
    ELSE lines[1].chars + 1 + joined_chars(Tail(lines))

\* "Based on the retrieved information:\n\n{context[:1000]}"
fallback_lines_uncut(context) == context_lines(context)
fallback_lines(context) == truncate(context_lines(context), FALLBACK_CHARS)

\* synthesize_answer: the fixed message when nothing was retrieved; else the
\* completion of the LLM on the context, or, when that call raises, the
\* context itself, cut to 1000 characters.
INSUFFICIENT == [kind |-> "insufficient", context |-> <<>>, lines |-> <<>>]
synthesize_answer(responses, synth_ok) ==
    LET context == context_parts(responses)
    IN IF context = <<>> THEN INSUFFICIENT
       ELSE IF synth_ok
            THEN [kind |-> "llm", context |-> context, lines |-> <<>>]
            ELSE [kind |-> "fallback", context |-> context,
                  lines |-> fallback_lines(context)]

\* "for response in agent_responses: if response.success:
\*      all_sources.extend(response.retrieved_docs)"
RECURSIVE all_sources(_)
all_sources(responses) ==
    IF responses = <<>> THEN <<>>
    ELSE (IF Head(responses).success THEN Head(responses).retrieved_docs
          ELSE <<>>) \o all_sources(Tail(responses))

\* A request arrives: POST /ask with a query, on some vector store and an
\* empty log.
AskInit ==
    /\ request \in AskQueries
    /\ ask_pc = "received"
    /\ decision_data = NoDecision
    /\ agent_responses = <<>>
    /\ final_answer = NoAnswer
    /\ query_response = NoResponse
    /\ \E n \in AskStoreSizes :
          /\ index = AskStore(n).index
          /\ documents = AskStore(n).documents
    /\ index_file = MissingFile
    /\ metadata_file = MissingFile
    /\ store_error = FALSE
    /\ LogIdle

\* Step 1: has_indexed_docs is read off the index and the controller decides,
\* use_llm = True (ControllerAgent.process never fails: route_with_llm falls
\* back to route_with_rules on every exception).
AskRoute ==
    /\ ask_pc = "received"
    /\ \E reply \in LLMReplies :
          decision_data' = route_with_llm(request, Len(index) > 0, reply)
    /\ ask_pc' = "invoking"
    /\ UNCHANGED <<request, agent_responses, final_answer, query_response>>
    /\ UNCHANGED logVars
    /\ AskOnly

\* Step 2, one turn of the loop: the next agent of agents_to_call is executed
\* and its response appended.
AskInvoke ==
    /\ ask_pc = "invoking"
    /\ Len(agent_responses) < Len(decision_data.agents_to_call)
    /\ LET agent_type == decision_data.agents_to_call[Len(agent_responses) + 1]
       IN \E outcome \in OutcomesOf(agent_type) :
             agent_responses' =
                 Append(agent_responses,
                        execute(agent_type, index, documents, outcome))
    /\ UNCHANGED <<request, ask_pc, decision_data, final_answer, query_response>>
    /\ UNCHANGED logVars
    /\ AskOnly

\* Step 3: the loop is over; the answer is synthesized.
AskSynthesize ==
    /\ ask_pc = "invoking"
    /\ Len(agent_responses) = Len(decision_data.agents_to_call)
    /\ \E synth_ok \in BOOLEAN :
          final_answer' = synthesize_answer(agent_responses, synth_ok)
    /\ ask_pc' = "synthesized"
    /\ UNCHANGED <<request, decision_data, agent_responses, query_response>>
    /\ UNCHANGED logVars
    /\ AskOnly

\* Steps 4 to 6: the sources are collected, the response is built with the
\* first SOURCES_CAP of them, the request is logged, the response returned.
AskRespond ==
    /\ ask_pc = "synthesized"
    /\ query_response' =
           [query |-> request,
            answer |-> final_answer,
            agents_used |-> decision_data.agents_to_call,
            decision_rationale |-> decision_data.rationale,
            sources |-> slice(all_sources(agent_responses), 0, SOURCES_CAP)]
    /\ \E read_ok \in BOOLEAN, outcome \in WriteOutcomes :
          log_file' = log_request(log_file,
                                  log_entry(nlogged + 1, request, decision_data,
                                            agent_responses, final_answer),
                                  read_ok, outcome)
    /\ log_returned' = [NothingReturned EXCEPT !.op = "log_request",
                                               !.request_id = nlogged + 1]
    /\ nlogged' = nlogged + 1
    /\ log_calls' = log_calls + 1
    /\ ask_pc' = "done"
    /\ UNCHANGED <<request, decision_data, agent_responses, final_answer>>
    /\ AskOnly

InitAsk == AskInit /\ ChunkIdle /\ RouterIdle /\ ServeIdle /\ DdgIdle /\ IngestIdle /\ WorkersIdle
NextAsk == AskRoute \/ AskInvoke \/ AskSynthesize \/ AskRespond
SpecAsk == InitAsk /\ [][NextAsk]_vars

\* The responses of the other capabilities, when exactly one capability of
\* several raised.
Raised(responses) == {i \in 1..Len(responses) : responses[i].error = RAISED}
Failed(responses) == {i \in 1..Len(responses) : ~responses[i].success}
OneOfSeveralRaised ==
    /\ ask_pc = "done"
    /\ Len(decision_data.agents_to_call) >= 2
    /\ Cardinality(Raised(agent_responses)) = 1

\* C4: when several capabilities are selected and exactly one raises, every
\* other selected capability is still invoked, the response contains the
\* passages of the others, and exactly one outcome with success = false is
\* recorded for the query.
C4_OneFailureIsolated ==
    OneOfSeveralRaised =>
        /\ Len(agent_responses) = Len(decision_data.agents_to_call)
        /\ \A i \in 1..Len(agent_responses) :
              /\ agent_responses[i].agent_type = decision_data.agents_to_call[i]
              /\ \A j \in 1..Len(agent_responses[i].retrieved_docs) :
                    agent_responses[i].retrieved_docs[j]
                        \in SeqRange(query_response.sources)
        /\ Cardinality(Failed(agent_responses)) = 1

\* No invoked capability returned a passage: every outcome failed or is empty.
NoPassage(responses) ==
    \A i \in 1..Len(responses) : responses[i].retrieved_docs = <<>>

\* C19: if no invoked capability returned any passage, the synthesis backend
\* is never called (the answer is neither its completion nor the fallback
\* for its failure) and the answer is the fixed insufficient-information
\* message.
C19_NoPassageNoSynthesis ==
    (ask_pc \in {"synthesized", "done"} /\ NoPassage(agent_responses)) =>
        /\ final_answer = INSUFFICIENT
        /\ ask_pc = "done" => query_response.answer = INSUFFICIENT

\* Two capabilities were invoked, neither returned a passage, and the
\* response was returned.
C19_Witness ==
    /\ ask_pc = "done"
    /\ Len(agent_responses) >= 2
    /\ NoPassage(agent_responses)
    /\ query_response.answer = INSUFFICIENT

\* The log file after the one log_request of the request, for some outcome
\* of its read and its write.
LoggedAsUsual ==
    /\ log_returned.op = "log_request"
    /\ log_calls = 1
    /\ \E read_ok \in BOOLEAN, outcome \in WriteOutcomes :
          log_file = log_request(LogFile(<<>>),
                                 log_entry(1, request, decision_data,
                                           agent_responses, final_answer),
                                 read_ok, outcome)

\* C20: if the completion backend fails during synthesis while at least one
\* passage was retrieved, the request still succeeds: the answer is the
\* aggregated passages cut to the first FALLBACK_CHARS characters (the lines
\* of the context in order, the last one cut, the first passage whole), the
\* sources are returned, and the audit log entry is written as for a normal
\* request.
C20_SynthesisFailureFallsBack ==
    (ask_pc \in {"synthesized", "done"} /\ final_answer.kind = "fallback") =>
        LET all == context_lines(context_parts(agent_responses))
            lines == final_answer.lines
            n == Len(lines)
        IN /\ ~NoPassage(agent_responses)
           /\ n >= 3 /\ n <= Len(all)
           /\ \A k \in 1..(n - 1) : lines[k] = all[k]
           /\ lines[n] = [all[n] EXCEPT !.chars = lines[n].chars]
           /\ lines[n].chars <= all[n].chars
           /\ lines[3].kind = "passage" /\ lines[3] = all[3]
           /\ n < Len(all) => joined_chars(lines) >= FALLBACK_CHARS - 1
           /\ joined_chars(lines) <= FALLBACK_CHARS
           /\ ask_pc = "done" =>
                 /\ query_response.answer = final_answer
                 /\ query_response.sources # <<>>
                 /\ query_response.sources =
                        slice(all_sources(agent_responses), 0, SOURCES_CAP)
                 /\ LoggedAsUsual

\* The backend failed on a context longer than FALLBACK_CHARS characters and
\* the response was returned with the context cut.
C20_Witness ==
    /\ ask_pc = "done"
    /\ query_response.answer.kind = "fallback"
    /\ Len(query_response.answer.lines)
          < Len(context_lines(context_parts(agent_responses)))
    /\ query_response.sources # <<>>

\* C21: the source list returned for a query is ranked and deduplicated: its
\* entries are in descending relevance-score order across all contributing
\* capabilities, and no two entries have the same source locator and content.
C21_SourcesRankedDeduplicated ==
    ask_pc = "done" =>
        LET sources == query_response.sources
        IN \A i \in 1..Len(sources), j \in 1..Len(sources) :
              i < j =>
                 /\ sources[i].score >= sources[j].score
                 /\ ~(/\ sources[i].source = sources[j].source
                      /\ sources[i].content = sources[j].content)

\* C22: every query that is answered with a response has exactly one audit
\* log entry written for it, holding the query, the routing decision, one
\* summarized outcome per invoked capability and the final answer; no
\* answered query is left without an entry.
C22_AnsweredQueryLoggedOnce ==
    ask_pc = "done" =>
        read_logs(log_file, TRUE)
            = <<log_entry(1, request, decision_data, agent_responses,
                          final_answer)>>

\* C23: in every handling of a query the routing decision is complete before
\* any capability is invoked, every selected capability has returned its
\* outcome, each invoked exactly once and none retried, before synthesis
\* starts, and the audit entry is written only after synthesis has produced
\* the final answer.
C23_StepsStrictlyOrdered ==
    LET selected == decision_data.agents_to_call
    IN /\ decision_data = NoDecision => agent_responses = <<>>
       /\ Len(agent_responses) <= Len(selected)
       /\ \A i \in 1..Len(agent_responses) :
             /\ agent_responses[i].agent_type = selected[i]
             /\ \A j \in 1..Len(agent_responses) :
                   i # j => agent_responses[i].agent_type
                               # agent_responses[j].agent_type
       /\ final_answer # NoAnswer => Len(agent_responses) = Len(selected)
       /\ log_calls > 0 => (final_answer # NoAnswer /\ log_calls = 1)
       /\ query_response # NoResponse => log_calls = 1

\* Three capabilities were invoked, the answer synthesized and the entry
\* written.
C23_Witness ==
    /\ ask_pc = "done"
    /\ Len(agent_responses) = 3
    /\ final_answer # NoAnswer
    /\ log_calls = 1

(***************************************************************************)
(* The server: /ask and /upload_pdf requests handled concurrently on the   *)
(* event loop of one uvicorn process, sharing the global vector_store      *)
(***************************************************************************)

\* Bounds of the server model: the /ask and the /upload_pdf requests.
MaxAsks    == 2
MaxUploads == 2

Asks == {<<"ask", i>> : i \in 1..MaxAsks}
Uploads == {<<"upload", i>> : i \in 1..MaxUploads}
Requests == Asks \cup Uploads

\* The chunks process_pdf returns for an uploaded file, with their metadata:
\* index_pdf passes one metadata dict per text.
upload_texts == <<"t1">>
upload_metadatas == [given |-> TRUE, list |-> <<[filename |-> "a.pdf"]>>]

\* Every handler is "async def" and runs on the one event loop thread; the
\* calls on the vector store are synchronous code without an await, so a
\* handler that is inside such a call keeps the thread until it returns.
may_run_in_threads(r) == TRUE
may_run(r) == running \in {NoRequest, r}

\* A handler is writing the store: between the start of index.add and the
\* end of pickle.dump in index_pdf.
WritingPcs == {"adding_vectors", "adding_metadata", "writing_index",
               "writing_metadata"}

ServeInit ==
    /\ handlers = [r \in Requests |-> "received"]
    /\ running = NoRequest
    /\ observed = NoSearch

\* upload_pdf up to "await file.read()" and the write of the temporary file.
HandleUploadRead ==
    \E r \in Uploads :
        /\ handlers[r] = "received"
        /\ may_run(r)
        /\ handlers' = [handlers EXCEPT ![r] = "read"]
        /\ UNCHANGED <<storeVars, running, observed>>
        /\ ServeOnly

\* upload_and_index -> index_pdf -> add_documents: the texts are encoded; an
\* exception ends the request with status 500.
HandleUploadEncode ==
    \E r \in Uploads, encode_ok \in BOOLEAN :
        /\ handlers[r] = "read"
        /\ may_run(r)
        /\ IF encode_ok
           THEN handlers' = [handlers EXCEPT ![r] = "adding_vectors"]
                /\ running' = r
           ELSE handlers' = [handlers EXCEPT ![r] = "failed"]
                /\ running' = NoRequest
        /\ UNCHANGED <<storeVars, observed>>
        /\ ServeOnly

\* add_documents: "self.index.add(embeddings)"
HandleUploadAddVectors ==
    \E r \in Uploads :
        /\ handlers[r] = "adding_vectors"
        /\ may_run(r)
        /\ index' = add_documents(index, documents, upload_texts,
                                  upload_metadatas).index
        /\ handlers' = [handlers EXCEPT ![r] = "adding_metadata"]
        /\ UNCHANGED <<documents, index_file, metadata_file, store_error,
                       running, observed>>
        /\ ServeOnly

\* add_documents: the loop over zip(texts, metadatas)
HandleUploadAddMetadata ==
    \E r \in Uploads :
        /\ handlers[r] = "adding_metadata"
        /\ may_run(r)
        /\ documents' = add_documents(<<>>, documents, upload_texts,
                                      upload_metadatas).documents
        /\ handlers' = [handlers EXCEPT ![r] = "writing_index"]
        /\ UNCHANGED <<index, index_file, metadata_file, store_error,
                       running, observed>>
        /\ ServeOnly

\* save: "faiss.write_index(self.index, ...)"
HandleUploadWriteIndex ==
    \E r \in Uploads :
        /\ handlers[r] = "writing_index"
        /\ may_run(r)
        /\ index_file' = SavedFile(index)
        /\ handlers' = [handlers EXCEPT ![r] = "writing_metadata"]
        /\ UNCHANGED <<index, documents, metadata_file, store_error,
                       running, observed>>
        /\ ServeOnly

\* save: "pickle.dump(self.documents, f)"; the synchronous section ends.
HandleUploadWriteMetadata ==
    \E r \in Uploads :
        /\ handlers[r] = "writing_metadata"
        /\ may_run(r)
        /\ metadata_file' = SavedFile(documents)
        /\ handlers' = [handlers EXCEPT ![r] = "done"]
        /\ running' = NoRequest
        /\ UNCHANGED <<index, documents, index_file, store_error, observed>>
        /\ ServeOnly

\* ask_query up to "await controller.execute(...)".
HandleAskRoute ==
    \E r \in Asks :
        /\ handlers[r] = "received"
        /\ may_run(r)
        /\ handlers' = [handlers EXCEPT ![r] = "routed"]
        /\ UNCHANGED <<storeVars, running, observed>>
        /\ ServeOnly

\* pdf_rag.execute -> retrieve -> vector_store.search, one synchronous call.
HandleAskSearch ==
    \E r \in Asks, encode_ok \in BOOLEAN :
        /\ handlers[r] = "routed"
        /\ may_run(r)
        /\ observed' = observe(index, documents, TOP_K_RETRIEVAL, encode_ok)
        /\ handlers' = [handlers EXCEPT ![r] = "done"]
        /\ UNCHANGED <<storeVars, running>>
        /\ ServeOnly

InitServe == ServeInit /\ StoreInit /\ ChunkIdle /\ RouterIdle /\ LogIdle /\ AskIdle /\ DdgIdle /\ IngestIdle /\ WorkersIdle
NextServe ==
    \/ HandleUploadRead
    \/ HandleUploadEncode
    \/ HandleUploadAddVectors
    \/ HandleUploadAddMetadata
    \/ HandleUploadWriteIndex
    \/ HandleUploadWriteMetadata
    \/ HandleAskRoute
    \/ HandleAskSearch
SpecServe == InitServe /\ [][NextServe]_vars

\* C16: under any interleaving of query requests (search) and ingestion
\* requests (add_documents followed by save) on the shared vector store, no
\* search observes the index with a vector count different from the metadata
\* entry count, and no two writes overlap.
C16_SearchSeesAlignedStore ==
    /\ observed.called => observed.ntotal = observed.ndocuments
    /\ Cardinality({r \in Requests : handlers[r] \in WritingPcs}) <= 1

\* A search has seen the store one upload filled, while a second upload that
\* was received before that search is now inside its write.
C16_Witness ==
    /\ observed.called
    /\ observed.ntotal = 1
    /\ \E u \in Uploads : handlers[u] \in WritingPcs

(***************************************************************************)
(* WebSearchAgent.search_duckduckgo: backend/agents/web_search_agent.py    *)
(***************************************************************************)

\* The constants of the retry: "for attempt in range(2)" and "wait_time = 3".
DDG_ATTEMPTS == 2
DDG_WAIT     == 3

\* The messages of the exceptions ddgs.text can raise: the rate limit of
\* DuckDuckGo, the same word in lower case, and a timeout.
E_Ratelimit == <<"2", "0", "2", " ", "R", "a", "t", "e", "l", "i", "m", "i", "t">>
E_ratelimit == <<"r", "a", "t", "e", "l", "i", "m", "i", "t">>
E_timeout   == <<"t", "i", "m", "e", "d", " ", "o", "u", "t">>
DdgErrors == {E_Ratelimit, E_ratelimit, E_timeout}
S_Ratelimit == <<"R", "a", "t", "e", "l", "i", "m", "i", "t">>

\* What one "with DDGS() as ddgs: ... ddgs.text(query, max_results)" does: it
\* raises, or it returns at most max_results results.
DdgCalls(max_results) ==
    [raises : {TRUE}, error : DdgErrors, found : {0}]
        \cup [raises : {FALSE}, error : {<<>>}, found : {0, 1, max_results}]

\* 'if "Ratelimit" in str(e) and attempt < 1'
retry_always(error, attempt) == TRUE
should_retry(error, attempt) == Contains(error, S_Ratelimit) /\ attempt < 1

\* The result dicts built from what ddgs.text returned.
ddg_results(found) == [i \in 1..found |-> [link |-> <<"web", "link", i>>,
                                           source |-> "DuckDuckGo"]]

\* search_duckduckgo(query, max_results) is called;
\* "max_results = max_results or self.max_results".
DdgInit ==
    \E q \in Phrases, max_results \in {0, 1, 3, WEB_SEARCH_RESULTS} :
        ddg = [NoDdg EXCEPT !.pc = "trying",
                            !.query = q,
                            !.max_results = IF max_results = 0
                                            THEN WEB_SEARCH_RESULTS
                                            ELSE max_results]

DdgOnly == UNCHANGED <<storeVars, chunkVars, routerVars, logVars, askVars,
                       serveVars, ingestVars, workerVars>>

\* One turn of the loop in which ddgs.text returns: the results are returned.
DdgAttemptReturns ==
    /\ ddg.pc = "trying"
    /\ ddg.attempt < DDG_ATTEMPTS
    /\ \E call \in DdgCalls(ddg.max_results) :
          /\ ~call.raises
          /\ ddg' = [ddg EXCEPT !.pc = "returned",
                                !.calls = Append(@, call),
                                !.returned = ddg_results(call.found)]
    /\ DdgOnly

\* One turn of the loop in which ddgs.text raises: the rate limit on the
\* first attempt is slept on and the loop goes on; everything else ends the
\* search with [].
DdgAttemptRaises ==
    /\ ddg.pc = "trying"
    /\ ddg.attempt < DDG_ATTEMPTS
    /\ \E call \in DdgCalls(ddg.max_results) :
          /\ call.raises
          /\ IF should_retry(call.error, ddg.attempt)
             THEN ddg' = [ddg EXCEPT !.calls = Append(@, call),
                                     !.slept = Append(@, DDG_WAIT),
                                     !.attempt = @ + 1,
                                     !.pc = IF ddg.attempt + 1 < DDG_ATTEMPTS
                                            THEN "trying" ELSE "returned"]
             ELSE ddg' = [ddg EXCEPT !.calls = Append(@, call),
                                     !.pc = "returned",
                                     !.returned = <<>>]
    /\ DdgOnly

InitDdg == DdgInit /\ StoreIdle /\ ChunkIdle /\ RouterIdle /\ LogIdle /\ AskIdle /\ ServeIdle /\ IngestIdle /\ WorkersIdle
NextDdg == DdgAttemptReturns \/ DdgAttemptRaises
SpecDdg == InitDdg /\ [][NextDdg]_vars

\* C24: a DuckDuckGo search makes at most two attempts; the second attempt
\* happens only if the first one raised the recognized rate-limit error,
\* after a fixed 3-second delay; any other error, and any error on the second
\* attempt, ends the search with an empty result and no further attempt.
C24_AtMostOneRetryOnRateLimit ==
    LET n == Len(ddg.calls)
    IN /\ n <= 2
       /\ n = 2 => /\ ddg.calls[1].raises
                   /\ Contains(ddg.calls[1].error, S_Ratelimit)
                   /\ ddg.slept = <<3>>
       /\ ddg.slept # <<>> =>
             /\ ddg.slept = <<3>>
             /\ ddg.calls[1].raises
             /\ Contains(ddg.calls[1].error, S_Ratelimit)
       /\ (n >= 1 /\ ddg.calls[n].raises
             /\ (n = 2 \/ ~Contains(ddg.calls[n].error, S_Ratelimit)))
            => (ddg.pc = "returned" /\ ddg.returned = <<>>)

\* The first attempt hit the rate limit, the second one failed too, and the
\* search returned nothing.
C24_Witness ==
    /\ ddg.pc = "returned"
    /\ Len(ddg.calls) = 2
    /\ ddg.calls[2].raises
    /\ ddg.returned = <<>>

(***************************************************************************)
(* The document agent: backend/agents/pdf_rag_agent.py                     *)
(***************************************************************************)

\* Bound of the ingestion model.
MaxIndexed == 3     \* an ingestion starts while the index and the documents hold at most this many entries

\* The files of settings.SAMPLE_PDFS_DIR, in the order glob lists them, and
\* the files a client uploads.
SamplePdfs == <<"s1.pdf", "s2.pdf">>
UploadPdfs == {"u.pdf"}

\* PDFProcessor.process_pdf of a readable file: its chunks, each with the
\* file name in its metadata (s2.pdf has two chunks, the others one).
num_chunks(f) == IF f = "s2.pdf" THEN Len(<<f, f>>) ELSE Len(<<f>>)
process_pdf(f) ==
    [texts |-> [i \in 1..num_chunks(f) |-> f],
     metadatas |-> [i \in 1..num_chunks(f) |-> [filename |-> f]]]

\* How a call of index_pdf goes: validate_pdf returns False, process_pdf
\* raises, the encoding inside add_documents raises, or save() goes one of
\* the ways of SaveOutcomes.
IndexOutcomes == {"invalid", "extraction_failed", "encoding_failed"} \cup SaveOutcomes
RaisesBeforeAdd(outcome) ==
    outcome \in {"invalid", "extraction_failed", "encoding_failed"}

\* save(): what the two files hold after it.
save_index_file(idx, ifile, outcome) ==
    CASE outcome = "index_write_failed_unchanged" -> ifile
      [] outcome = "index_write_failed_partial" -> CorruptFile
      [] OTHER -> SavedFile(idx)
save_metadata_file(docs, mfile, outcome) ==
    CASE outcome = "ok" -> SavedFile(docs)
      [] outcome = "metadata_dump_failed" -> CorruptFile
      [] OTHER -> mfile

\* The store as index_pdf sees it.
TheStore ==
    [index |-> index, documents |-> documents,
     index_file |-> index_file, metadata_file |-> metadata_file,
     raised |-> FALSE]

\* index_pdf: validate, process, add_documents, save; the first step that
\* fails raises and the steps before it stay done.
index_pdf(st, f, outcome) ==
    IF RaisesBeforeAdd(outcome)
    THEN [st EXCEPT !.raised = TRUE]
    ELSE LET p == process_pdf(f)
             r == add_documents(st.index, st.documents, p.texts,
                                [given |-> TRUE, list |-> p.metadatas])
         IN [index |-> r.index,
             documents |-> r.documents,
             index_file |-> save_index_file(r.index, st.index_file, outcome),
             metadata_file |-> save_metadata_file(r.documents, st.metadata_file, outcome),
             raised |-> outcome # "ok"]

\* index_sample_pdfs: every sample file whose name is not in indexed_files
\* is indexed; the name is added when index_pdf returns, an exception is
\* logged and the loop goes on.
RECURSIVE index_sample_pdfs(_, _, _, _)
index_sample_pdfs(st, names, pdf_files, outcomes) ==
    IF pdf_files = <<>>
    THEN [store |-> st, indexed_files |-> names]
    ELSE LET pdf_file == Head(pdf_files)
         IN IF pdf_file \in names
            THEN index_sample_pdfs(st, names, Tail(pdf_files), outcomes)
            ELSE LET r == index_pdf(st, pdf_file, outcomes[pdf_file])
                 IN index_sample_pdfs([r EXCEPT !.raised = FALSE],
                                      IF r.raised THEN names
                                      ELSE names \cup {pdf_file},
                                      Tail(pdf_files), outcomes)

\* What an ingestion call found when it was called.
Before ==
    [index |-> index, documents |-> documents, indexed_files |-> indexed_files]

\* PDFRAGAgent.__init__
IngestInit ==
    /\ indexed_files = {}
    /\ initialized = FALSE
    /\ ingest = NoIngest

IngestOnly == UNCHANGED <<chunkVars, routerVars, logVars, askVars, serveVars, ddgVars, workerVars>>

\* The first execute() of the agent in a process: initialize() runs
\* index_sample_pdfs and sets initialized.
PdfInitialize ==
    /\ ~initialized
    /\ Len(index) <= MaxIndexed
    /\ Len(documents) <= MaxIndexed
    /\ \E outcomes \in [SeqRange(SamplePdfs) -> IndexOutcomes] :
          LET r == index_sample_pdfs(TheStore, indexed_files, SamplePdfs, outcomes)
          IN /\ index' = r.store.index
             /\ documents' = r.store.documents
             /\ index_file' = r.store.index_file
             /\ metadata_file' = r.store.metadata_file
             /\ indexed_files' = r.indexed_files
    /\ initialized' = TRUE
    /\ ingest' = [NoIngest EXCEPT !.op = "initialize"]
    /\ UNCHANGED store_error
    /\ IngestOnly

\* upload_and_index: the file is moved to the uploads directory and indexed;
\* its name is added to indexed_files when index_pdf has returned; any
\* exception is raised again.
UploadAndIndex ==
    /\ Len(index) <= MaxIndexed
    /\ Len(documents) <= MaxIndexed
    /\ \E original_filename \in UploadPdfs,
          outcome \in {"move_failed"} \cup IndexOutcomes :
          LET r == IF outcome = "move_failed"
                   THEN [TheStore EXCEPT !.raised = TRUE]
                   ELSE index_pdf(TheStore, original_filename, outcome)
          IN /\ index' = r.index
             /\ documents' = r.documents
             /\ index_file' = r.index_file
             /\ metadata_file' = r.metadata_file
             /\ indexed_files' = IF r.raised THEN indexed_files
                                 ELSE indexed_files \cup {original_filename}
             /\ ingest' = [op |-> "upload_and_index",
                           filename |-> original_filename, step |-> outcome,
                           raised |-> r.raised, before |-> Before]
    /\ UNCHANGED <<initialized, store_error>>
    /\ IngestOnly

\* The process stops and is started again: FAISSVectorStore.__init__ loads
\* the files, PDFRAGAgent.__init__ starts with no file name and not initialized.
ProcessRestart ==
    /\ LET r == load(create_index, <<>>, index_file, metadata_file)
       IN /\ index' = r.index
          /\ documents' = r.documents
    /\ indexed_files' = {}
    /\ initialized' = FALSE
    /\ ingest' = [NoIngest EXCEPT !.op = "restart"]
    /\ UNCHANGED <<index_file, metadata_file, store_error>>
    /\ IngestOnly

InitIngest == IngestInit /\ StoreInit /\ ChunkIdle /\ RouterIdle /\ LogIdle /\ AskIdle /\ ServeIdle /\ DdgIdle /\ WorkersIdle
NextIngest == PdfInitialize \/ UploadAndIndex \/ ProcessRestart
SpecIngest == InitIngest /\ [][NextIngest]_vars

\* The number of entries of the store that come from file f.
EntriesOf(f) ==
    Cardinality({i \in 1..Len(documents) : documents[i].metadata.filename = f})

\* C28: across restarts and initializations, the chunks of each sample
\* document are in the index at most once.
C28_SampleIndexedAtMostOnce ==
    \A f \in SeqRange(SamplePdfs) : EntriesOf(f) <= num_chunks(f)

\* C29: an ingestion that ends in an error leaves the index, the documents
\* and the set of indexed file names as they were before the call.
C29_FailedIngestionChangesNothing ==
    ingest.raised =>
        /\ index = ingest.before.index
        /\ documents = ingest.before.documents
        /\ indexed_files = ingest.before.indexed_files

(***************************************************************************)
(* Worker processes logging to one file: backend/utils/logger.py           *)
(***************************************************************************)

\* Bound of the worker model.
NumWorkers == 2     \* processes that serve queries on the same log file

Workers == 1..NumWorkers

\* The entry worker w logs: the entries differ in request_id only.
worker_entry(w) == logged_entry(nlogged + w)

WorkersInit ==
    /\ LogInit
    /\ workers = [w \in Workers |-> IdleWorker]

WorkersOnly ==
    UNCHANGED <<storeVars, chunkVars, routerVars, askVars, serveVars, ddgVars,
                ingestVars, nlogged, log_calls, log_returned>>

\* "logs = self._read_logs(); logs.append(log_entry); if len(logs) > 1000: ..."
WorkerRead(w) ==
    /\ workers[w].pc = "idle"
    /\ \E read_ok \in BOOLEAN :
          workers' = [workers EXCEPT
                         ![w].pc = "read",
                         ![w].read_ok = read_ok,
                         ![w].logs = keep_last(Append(read_logs(log_file, read_ok),
                                                      worker_entry(w)))]
    /\ UNCHANGED log_file
    /\ WorkersOnly

\* _write_logs, "with open(self.log_file, 'w') as f": the file is truncated,
\* or open raises and the call is over with the file untouched.
WorkerOpen(w) ==
    /\ workers[w].pc = "read"
    /\ \/ /\ log_file' = UnreadableLog
          /\ workers' = [workers EXCEPT ![w].pc = "opened"]
       \/ /\ log_file' = write_logs(log_file, workers[w].logs, "not_opened")
          /\ workers' = [workers EXCEPT ![w].pc = "done",
                                        ![w].outcome = "not_opened"]
    /\ WorkersOnly

\* _write_logs, "json.dump(logs, f, indent=2, default=str)": the list is
\* written, or the dump raises and the file stays cut.
WorkerDump(w) ==
    /\ workers[w].pc = "opened"
    /\ \E outcome \in {"written", "truncated"} :
          /\ log_file' = write_logs(log_file, workers[w].logs, outcome)
          /\ workers' = [workers EXCEPT ![w].pc = "done",
                                        ![w].outcome = outcome]
    /\ WorkersOnly

InitWorkers == WorkersInit /\ StoreIdle /\ ChunkIdle /\ RouterIdle /\ AskIdle /\ ServeIdle /\ DdgIdle /\ IngestIdle
NextWorkers == \E w \in Workers : WorkerRead(w) \/ WorkerOpen(w) \/ WorkerDump(w)
SpecWorkers == InitWorkers /\ [][NextWorkers]_vars

\* Every worker has completed its call, every read and every write succeeded.
AllLoggedWithoutError ==
    \A w \in Workers : /\ workers[w].pc = "done"
                       /\ workers[w].read_ok
                       /\ workers[w].outcome = "written"

\* C30: after concurrent log_request calls have all completed (none of them
\* failing to read or to write), the log file holds the entry of each.
C30_ConcurrentCallsKeepBothEntries ==
    AllLoggedWithoutError =>
        \A w \in Workers : worker_entry(w) \in SeqRange(read_logs(log_file, TRUE))

====
